---- MODULE Spec2Model ----
(***************************************************************************)
(* Model of two programs of the repository:                                *)
(*   updates/experiments/tag-based-decision-api.py  (EnhancedDecisionAPI)  *)
(*   scripts/check_herald_integration.py            (integration report)   *)
(* Spec        : construction of an EnhancedDecisionAPI and its calls of   *)
(*               evaluate_command.                                          *)
(* SpecResolve : _resolve_action over every severity_thresholds mapping.   *)
(* SpecHerald  : one run of main() of check_herald_integration.py.         *)
(***************************************************************************)
EXTENDS Integers, Sequences, FiniteSets, TLC

VARIABLES
  policy,               \* EnhancedDecisionAPI.policy
  rules,                \* EnhancedDecisionAPI.rules (compiled)
  severity_thresholds,  \* EnhancedDecisionAPI.severity_thresholds
  warnings,             \* rule items reported by "Warning: Failed to compile rule"
  api_pc,               \* "new" | "ready" | "resolve" | "idle"
  command,              \* argument of the last evaluate_command call
  result,               \* value returned by the last evaluate_command call
  resolved,             \* last call of _resolve_action: arguments and value
  files,                \* state of herald.py, audio_config.json, settings.json
  argv,                 \* command-line arguments of check_herald_integration.py
  pc,                   \* position of main()
  results,              \* main(): results dict, filled check by check
  stdout,               \* lines written to stdout
  stderr,               \* lines written to stderr
  exit_status           \* process exit status once the run has ended

api_vars == <<policy, rules, severity_thresholds, warnings, api_pc, command, result, resolved>>
herald_vars == <<files, argv, pc, results, stdout, stderr, exit_status>>
vars == <<policy, rules, severity_thresholds, warnings, api_pc, command, result, resolved,
          files, argv, pc, results, stdout, stderr, exit_status>>

(***************************************************************************)
(* Bounds of the model.                                                    *)
(***************************************************************************)
MaxRules == 2      \* longest rule list of a policy in Spec
MaxCompiled == 3   \* longest rule list of a policy in SpecCompile
MaxAbsent == 1     \* most expected items a file of SpecHerald lacks or has wrong

(***************************************************************************)
(* Python values used by both programs.                                    *)
(***************************************************************************)
None == [json |-> "null"]

Range(s) == {s[i] : i \in DOMAIN s}

DictGet(d, key, default) == IF key \in DOMAIN d THEN d[key] ELSE default

EmptyDict == [k \in {} |-> None]

(***************************************************************************)
(* Regular expressions.  A compiled pattern is a sequence of atoms; search *)
(* is re.Pattern.search under re.IGNORECASE.  Only the constructs that the *)
(* patterns of the program use are modelled: literal characters, character *)
(* classes, \s+, .*, a group of alternatives and $.                         *)
(***************************************************************************)
UpperCase == <<"A", "B", "C", "D", "E", "F", "G", "H", "I", "J", "K", "L", "M",
               "N", "O", "P", "Q", "R", "S", "T", "U", "V", "W", "X", "Y", "Z">>
LowerCase == <<"a", "b", "c", "d", "e", "f", "g", "h", "i", "j", "k", "l", "m",
               "n", "o", "p", "q", "r", "s", "t", "u", "v", "w", "x", "y", "z">>

Lower(c) ==
  IF \E i \in DOMAIN UpperCase : UpperCase[i] = c
  THEN LowerCase[CHOOSE i \in DOMAIN UpperCase : UpperCase[i] = c]
  ELSE c

Whitespace == {" ", "\t", "\n", "\r", "\f"}

Cls(S) == [k |-> "set", cs |-> S, neg |-> FALSE, q |-> "1"]
Chr(c) == Cls({c})
Lit(s) == [i \in 1..Len(s) |-> Chr(s[i])]
WsPlus == [k |-> "set", cs |-> Whitespace, neg |-> FALSE, q |-> "+"]
DotStar == [k |-> "set", cs |-> {"\n"}, neg |-> TRUE, q |-> "*"]
Alt(alts) == [k |-> "alt", alts |-> alts]
Eol == [k |-> "eol"]

InClass(a, ch) == (Lower(ch) \in {Lower(x) : x \in a.cs}) # a.neg

RECURSIVE MatchAt(_, _, _)
MatchAt(atoms, text, pos) ==
  IF Len(atoms) = 0 THEN TRUE
  ELSE
    LET a == Head(atoms)
        rest == Tail(atoms)
    IN  IF a.k = "eol"
          THEN /\ \/ pos = Len(text) + 1
                  \/ pos = Len(text) /\ text[pos] = "\n"
               /\ MatchAt(rest, text, pos)
        ELSE IF a.k = "alt"
          THEN \E j \in DOMAIN a.alts : MatchAt(a.alts[j] \o rest, text, pos)
        ELSE
          LET here == pos <= Len(text) /\ InClass(a, text[pos])
          IN  IF a.q = "1" THEN here /\ MatchAt(rest, text, pos + 1)
              ELSE IF a.q = "+"
                THEN here /\ MatchAt(<<[a EXCEPT !.q = "*"]>> \o rest, text, pos + 1)
              ELSE \/ here /\ MatchAt(atoms, text, pos + 1)
                   \/ MatchAt(rest, text, pos)

\* re.Pattern.search(text)
re_search(prog, text) == \E pos \in 1..(Len(text) + 1) : MatchAt(prog, text, pos)

(***************************************************************************)
(* tag-based-decision-api.py                                               *)
(***************************************************************************)
TagOrder ==
  << "package:install",
     "package:uninstall",
     "git:destructive",
     "git:history",
     "system:dangerous",
     "system:admin",
     "files:secrets",
     "files:config" >>

BUILT_IN_TAG_PATTERNS ==
  ("package:install" :> <<
       Lit(<<"n", "p", "m">>) \o <<WsPlus>> \o Lit(<<"i", "n", "s", "t", "a", "l", "l">>),   \* npm\s+install
       Lit(<<"p", "i", "p">>) \o <<WsPlus>> \o Lit(<<"i", "n", "s", "t", "a", "l", "l">>),   \* pip\s+install
       Lit(<<"p", "o", "e", "t", "r", "y">>) \o <<WsPlus>> \o Lit(<<"a", "d", "d">>),   \* poetry\s+add
       Lit(<<"y", "a", "r", "n">>) \o <<WsPlus>> \o Lit(<<"a", "d", "d">>),   \* yarn\s+add
       Lit(<<"u", "v">>) \o <<WsPlus>> \o Lit(<<"p", "i", "p">>) \o <<WsPlus>> \o Lit(<<"i", "n", "s", "t", "a", "l", "l">>),   \* uv\s+pip\s+install
       Lit(<<"b", "r", "e", "w">>) \o <<WsPlus>> \o Lit(<<"i", "n", "s", "t", "a", "l", "l">>),   \* brew\s+install
       Lit(<<"a", "p", "t">>) \o <<WsPlus>> \o Lit(<<"i", "n", "s", "t", "a", "l", "l">>),   \* apt\s+install
       Lit(<<"y", "u", "m">>) \o <<WsPlus>> \o Lit(<<"i", "n", "s", "t", "a", "l", "l">>)   \* yum\s+install
     >>)
  @@ ("package:uninstall" :> <<
       Lit(<<"n", "p", "m">>) \o <<WsPlus>> \o <<Alt(<<Lit(<<"u", "n", "i", "n", "s", "t", "a", "l", "l">>), Lit(<<"r", "e", "m", "o", "v", "e">>)>>)>>,   \* npm\s+(uninstall|remove)
       Lit(<<"p", "i", "p">>) \o <<WsPlus>> \o Lit(<<"u", "n", "i", "n", "s", "t", "a", "l", "l">>),   \* pip\s+uninstall
       Lit(<<"p", "o", "e", "t", "r", "y">>) \o <<WsPlus>> \o Lit(<<"r", "e", "m", "o", "v", "e">>),   \* poetry\s+remove
       Lit(<<"b", "r", "e", "w">>) \o <<WsPlus>> \o Lit(<<"u", "n", "i", "n", "s", "t", "a", "l", "l">>)   \* brew\s+uninstall
     >>)
  @@ ("git:destructive" :> <<
       Lit(<<"g", "i", "t">>) \o <<WsPlus>> \o Lit(<<"r", "e", "s", "e", "t">>) \o <<WsPlus>> \o Lit(<<"-", "-", "h", "a", "r", "d">>),   \* git\s+reset\s+--hard
       Lit(<<"g", "i", "t">>) \o <<WsPlus>> \o Lit(<<"c", "l", "e", "a", "n">>) \o <<WsPlus>> \o Lit(<<"-">>) \o <<Cls({"f", "d"})>>,   \* git\s+clean\s+-[fd]
       Lit(<<"g", "i", "t">>) \o <<WsPlus>> \o Lit(<<"r", "e", "b", "a", "s", "e">>) \o <<WsPlus>> \o Lit(<<"-", "-", "a", "b", "o", "r", "t">>),   \* git\s+rebase\s+--abort
       Lit(<<"g", "i", "t">>) \o <<WsPlus>> \o Lit(<<"c", "h", "e", "c", "k", "o", "u", "t">>) \o <<WsPlus>> \o Lit(<<"-", "-", "f", "o", "r", "c", "e">>)   \* git\s+checkout\s+--force
     >>)
  @@ ("git:history" :> <<
       Lit(<<"g", "i", "t">>) \o <<WsPlus>> \o Lit(<<"r", "e", "b", "a", "s", "e">>) \o <<WsPlus>> \o Lit(<<"-", "i">>),   \* git\s+rebase\s+-i
       Lit(<<"g", "i", "t">>) \o <<WsPlus>> \o Lit(<<"c", "o", "m", "m", "i", "t">>) \o <<WsPlus>> \o Lit(<<"-", "-", "a", "m", "e", "n", "d">>),   \* git\s+commit\s+--amend
       Lit(<<"g", "i", "t">>) \o <<WsPlus>> \o Lit(<<"c", "h", "e", "r", "r", "y", "-", "p", "i", "c", "k">>),   \* git\s+cherry-pick
       Lit(<<"g", "i", "t">>) \o <<WsPlus>> \o Lit(<<"r", "e", "f", "l", "o", "g">>) \o <<WsPlus>> \o Lit(<<"e", "x", "p", "i", "r", "e">>)   \* git\s+reflog\s+expire
     >>)
  @@ ("system:dangerous" :> <<
       Lit(<<"r", "m">>) \o <<WsPlus>> \o Lit(<<"-", "r", "f">>) \o <<WsPlus>> \o Lit(<<"/">>),   \* rm\s+-rf\s+/
       Lit(<<"s", "u", "d", "o">>) \o <<WsPlus>> \o Lit(<<"r", "m">>) \o <<WsPlus>> \o Lit(<<"-", "r", "f">>),   \* sudo\s+rm\s+-rf
       Lit(<<"c", "h", "m", "o", "d">>) \o <<WsPlus>> \o Lit(<<"7", "7", "7">>),   \* chmod\s+777
       Lit(<<"c", "h", "o", "w", "n">>) \o <<WsPlus>> \o <<DotStar>> \o <<WsPlus>> \o Lit(<<"/">>),   \* chown\s+.*\s+/
       Lit(<<"m", "k", "f", "s", ".">>),   \* mkfs\.
       Lit(<<"d", "d">>) \o <<WsPlus>> \o Lit(<<"i", "f", "=">>)   \* dd\s+if=
     >>)
  @@ ("system:admin" :> <<
       Lit(<<"s", "u", "d", "o">>) \o <<WsPlus>>,   \* sudo\s+
       Lit(<<"d", "o", "a", "s">>) \o <<WsPlus>>,   \* doas\s+
       Lit(<<"s", "u">>) \o <<WsPlus>> \o Lit(<<"-">>),   \* su\s+-
       Lit(<<"s", "y", "s", "t", "e", "m", "c", "t", "l">>) \o <<WsPlus>> \o <<Alt(<<Lit(<<"s", "t", "o", "p">>), Lit(<<"r", "e", "s", "t", "a", "r", "t">>), Lit(<<"d", "i", "s", "a", "b", "l", "e">>)>>)>>   \* systemctl\s+(stop|restart|disable)
     >>)
  @@ ("files:secrets" :> <<
       Lit(<<".", "e", "n", "v">>) \o <<Alt(<<Lit(<<".">>), <<Eol>>>>)>>,   \* \.env(\.|$)
       Lit(<<"i", "d", "_">>) \o <<Alt(<<Lit(<<"r", "s", "a">>), Lit(<<"e", "d", "2", "5", "5", "1", "9">>)>>)>>,   \* id_(rsa|ed25519)
       <<DotStar>> \o Lit(<<".", "k", "e", "y">>) \o <<Eol>>,   \* .*\.key$
       <<DotStar>> \o Lit(<<"p", "a", "s", "s", "w", "o", "r", "d">>) \o <<DotStar>>,   \* .*password.*
       <<DotStar>> \o Lit(<<"s", "e", "c", "r", "e", "t">>) \o <<DotStar>>,   \* .*secret.*
       Lit(<<".", "s", "s", "h", "/">>),   \* \.ssh/
       Lit(<<"c", "r", "e", "d", "e", "n", "t", "i", "a", "l", "s">>)   \* credentials
     >>)
  @@ ("files:config" :> <<
       Lit(<<"p", "a", "c", "k", "a", "g", "e", ".", "j", "s", "o", "n">>) \o <<Eol>>,   \* package\.json$
       Lit(<<"p", "y", "p", "r", "o", "j", "e", "c", "t", ".", "t", "o", "m", "l">>) \o <<Eol>>,   \* pyproject\.toml$
       Lit(<<"C", "a", "r", "g", "o", ".", "t", "o", "m", "l">>) \o <<Eol>>,   \* Cargo\.toml$
       Lit(<<"r", "e", "q", "u", "i", "r", "e", "m", "e", "n", "t", "s", ".", "t", "x", "t">>) \o <<Eol>>,   \* requirements\.txt$
       Lit(<<"p", "o", "e", "t", "r", "y", ".", "l", "o", "c", "k">>) \o <<Eol>>   \* poetry\.lock$
     >>)

(***************************************************************************)
(* Patterns of rule items and the commands evaluated.                      *)
(***************************************************************************)
Pattern(src, prog) == [src |-> src, valid |-> TRUE, prog |-> prog]
BadPattern(src) == [src |-> src, valid |-> FALSE]

CurlPipeSh ==      \* curl.*\|.*sh
  Pattern("curl.*\\|.*sh",
          Lit(<<"c", "u", "r", "l">>) \o <<DotStar>> \o Lit(<<"|">>) \o <<DotStar>>
            \o Lit(<<"s", "h">>))
RmRf ==            \* rm\s+-rf
  Pattern("rm\\s+-rf", Lit(<<"r", "m">>) \o <<WsPlus>> \o Lit(<<"-", "r", "f">>))
EchoPattern ==     \* echo
  Pattern("echo", Lit(<<"e", "c", "h", "o">>))
InstallPattern ==  \* install
  Pattern("install", Lit(<<"i", "n", "s", "t", "a", "l", "l">>))
Unbalanced ==      \* rm -rf (     (re.error: missing ), unterminated subpattern)
  BadPattern("rm -rf (")

CmdRmRf == <<"r", "m", " ", "-", "r", "f", " ", "/">>   \* rm -rf /
CmdNpmInstall == <<"n", "p", "m", " ", "i", "n", "s", "t", "a", "l", "l", " ", "e", "x", "p", "r", "e", "s", "s">>   \* npm install express
CmdGitReset == <<"g", "i", "t", " ", "r", "e", "s", "e", "t", " ", "-", "-", "h", "a", "r", "d", " ", "H", "E", "A", "D", "~", "3">>   \* git reset --hard HEAD~3
CmdCurlPipe == <<"c", "u", "r", "l", " ", "h", "t", "t", "p", "s", ":", "/", "/", "e", "x", "a", "m", "p", "l", "e", ".", "c", "o", "m", "/", "s", "c", "r", "i", "p", "t", ".", "s", "h", " ", "|", " ", "s", "h">>   \* curl https://example.com/script.sh | sh
CmdEchoWorld == <<"e", "c", "h", "o", " ", "h", "e", "l", "l", "o", " ", "w", "o", "r", "l", "d">>   \* echo hello world
CmdPipInstall == <<"p", "i", "p", " ", "i", "n", "s", "t", "a", "l", "l", " ", "r", "e", "q", "u", "e", "s", "t", "s">>   \* pip install requests
CmdSudoRestart == <<"s", "u", "d", "o", " ", "s", "y", "s", "t", "e", "m", "c", "t", "l", " ", "r", "e", "s", "t", "a", "r", "t", " ", "n", "g", "i", "n", "x">>   \* sudo systemctl restart nginx
CmdEcho == <<"e", "c", "h", "o", " ", "h", "e", "l", "l", "o">>   \* echo hello
CmdUpperRm == <<"R", "M", " ", " ", "-", "R", "F", " ", "/", "t", "m", "p">>   \* RM  -RF /tmp
CmdCatEnv == <<"c", "a", "t", " ", ".", "e", "n", "v">>   \* cat .env

Commands ==
  {CmdRmRf, CmdNpmInstall, CmdGitReset, CmdCurlPipe, CmdEchoWorld, CmdPipInstall,
   CmdSudoRestart, CmdEcho, CmdUpperRm, CmdCatEnv}

\* Every compiled pattern of the model and every text it is searched in; the
\* searches are evaluated once and looked up afterwards.
Programs ==
  UNION {Range(BUILT_IN_TAG_PATTERNS[tag]) : tag \in DOMAIN BUILT_IN_TAG_PATTERNS}
    \cup {CurlPipeSh.prog, RmRf.prog, EchoPattern.prog, InstallPattern.prog}

SearchMemo == [prog \in Programs |-> [text \in Commands |-> re_search(prog, text)]]

search(prog, text) == SearchMemo[prog][text]

\* TagMatcher.__init__: the built-in table with no custom patterns, each
\* pattern compiled with re.IGNORECASE.
compiled_patterns == BUILT_IN_TAG_PATTERNS

SEVERITY_LEVELS == <<"low", "medium", "high", "critical">>

Actions == {"allow", "ask", "deny"}

DefaultReason == "no reason given"   \* the default text of EnhancedRule.reason

NoPattern == [some |-> FALSE]
SomePattern(prog) == [some |-> TRUE, prog |-> prog]

\* re.compile(str(source), re.IGNORECASE): raises re.error on a malformed source.
re_compile(source) ==
  IF source.valid THEN [raised |-> FALSE, value |-> SomePattern(source.prog)]
  ELSE [raised |-> TRUE]

EnhancedRule(rule_type, action, pattern, reason, tags, severity) ==
  [rule_type |-> rule_type, action |-> action, pattern |-> pattern,
   reason |-> reason, tags |-> tags, severity |-> severity]

\* Mutant of matches_any: only the first tag of the rule is looked up.
matches_any_first_tag(text, tags) ==
  /\ Len(tags) > 0
  /\ Head(tags) \in DOMAIN compiled_patterns
  /\ \E i \in DOMAIN compiled_patterns[Head(tags)] :
        search(compiled_patterns[Head(tags)][i], text)

\* TagMatcher.matches_any
RECURSIVE matches_any(_, _)
matches_any(text, tags) ==
  IF Len(tags) = 0 THEN FALSE
  ELSE LET tag == Head(tags)
       IN  IF /\ tag \in DOMAIN compiled_patterns
              /\ \E i \in DOMAIN compiled_patterns[tag] :
                    search(compiled_patterns[tag][i], text)
           THEN TRUE
           ELSE matches_any(text, Tail(tags))

\* TagMatcher.get_matching_tags
get_matching_tags(text) ==
  SelectSeq(TagOrder,
            LAMBDA tag : \E i \in DOMAIN compiled_patterns[tag] :
                            search(compiled_patterns[tag][i], text))

\* Mutant of matches_command: the tags of the rule are not consulted.
matches_command_pattern_only(rule, cmd) ==
  rule.pattern.some /\ search(rule.pattern.prog, cmd)

\* EnhancedRule.matches_command
matches_command(rule, cmd) ==
  IF rule.pattern.some /\ search(rule.pattern.prog, cmd) THEN TRUE
  ELSE matches_any(cmd, rule.tags)

\* The body of the loop of _compile_rules for one item: the rule, or raised.
CompileItem(item) ==
  IF item.json # "dict" THEN [raised |-> TRUE]
  ELSE
    LET d == item.d
        c == IF "pattern" \in DOMAIN d THEN re_compile(d["pattern"])
             ELSE [raised |-> FALSE, value |-> NoPattern]
    IN  IF c.raised THEN [raised |-> TRUE]
        ELSE [raised |-> FALSE,
              value |-> EnhancedRule(DictGet(d, "type", "command"),
                                     DictGet(d, "action", "allow"),
                                     c.value,
                                     DictGet(d, "reason", DefaultReason),
                                     DictGet(d, "tags", <<>>),
                                     DictGet(d, "severity", "medium"))]

\* Mutant of CompileLoop: the loop ends at the first item that fails to compile.
RECURSIVE CompileLoopBreak(_, _, _, _)
CompileLoopBreak(rules_cfg, i, compiled, warned) ==
  IF i > Len(rules_cfg) THEN [compiled |-> compiled, warnings |-> warned]
  ELSE LET r == CompileItem(rules_cfg[i])
       IN  IF r.raised
           THEN [compiled |-> compiled, warnings |-> Append(warned, rules_cfg[i])]
           ELSE CompileLoopBreak(rules_cfg, i + 1, Append(compiled, r.value), warned)

RECURSIVE CompileLoop(_, _, _, _)
CompileLoop(rules_cfg, i, compiled, warned) ==
  IF i > Len(rules_cfg) THEN [compiled |-> compiled, warnings |-> warned]
  ELSE LET r == CompileItem(rules_cfg[i])
       IN  IF r.raised
           THEN CompileLoop(rules_cfg, i + 1, compiled, Append(warned, rules_cfg[i]))
           ELSE CompileLoop(rules_cfg, i + 1, Append(compiled, r.value), warned)

_compile_rules_break(p) ==
  CompileLoopBreak(DictGet(DictGet(p, "pre_tool_use", EmptyDict), "rules", <<>>),
                   1, <<>>, <<>>)

\* EnhancedDecisionAPI._compile_rules
_compile_rules(p) ==
  CompileLoop(DictGet(DictGet(p, "pre_tool_use", EmptyDict), "rules", <<>>), 1, <<>>, <<>>)

DefaultThresholds ==
  ("critical" :> "deny") @@ ("high" :> "ask") @@ ("medium" :> "ask") @@ ("low" :> "allow")

\* Mutant of _resolve_action: a configured threshold replaces the rule's action.
_resolve_action_override(thresholds, rule_action, severity) ==
  IF severity \in DOMAIN thresholds /\ thresholds[severity] # ""
  THEN thresholds[severity]
  ELSE rule_action

\* EnhancedDecisionAPI._resolve_action
_resolve_action(thresholds, rule_action, severity) ==
  IF severity \in DOMAIN thresholds /\ thresholds[severity] # ""
  THEN IF rule_action = "deny" \/ thresholds[severity] = "deny" THEN "deny"
       ELSE IF rule_action = "ask" \/ thresholds[severity] = "ask" THEN "ask"
       ELSE rule_action
  ELSE rule_action

\* Mutant of NoMatch: an unmatched command is sent for confirmation.
NoMatchAsk(tool_name) ==
  [permissionDecision |-> "ask", reason |-> "No matching security rules", tool |-> tool_name]

\* evaluate_command: the value returned when no rule matched
NoMatch(tool_name) ==
  [permissionDecision |-> "allow", reason |-> "No matching security rules", tool |-> tool_name]

Matched(thresholds, rule, cmd, tool_name) ==
  LET final_action == _resolve_action(thresholds, rule.action, rule.severity)
  IN  [permissionDecision |-> final_action,
       reason |-> rule.reason,
       matched_rule |-> [action |-> rule.action, severity |-> rule.severity,
                         tags |-> rule.tags, final_action |-> final_action],
       matching_tags |-> get_matching_tags(cmd),
       tool |-> tool_name]

\* Mutant of EvaluateFrom: the last matching rule wins.
RECURSIVE EvaluateLast(_, _, _, _, _)
EvaluateLast(rs, thresholds, i, cmd, tool_name) ==
  IF i > Len(rs) THEN NoMatch(tool_name)
  ELSE LET later == EvaluateLast(rs, thresholds, i + 1, cmd, tool_name)
       IN  IF /\ "matched_rule" \notin DOMAIN later
              /\ rs[i].rule_type = "command" /\ matches_command(rs[i], cmd)
           THEN Matched(thresholds, rs[i], cmd, tool_name)
           ELSE later

\* Mutant of EvaluateFrom: the type of the rule is not looked at.
RECURSIVE EvaluateAnyType(_, _, _, _, _)
EvaluateAnyType(rs, thresholds, i, cmd, tool_name) ==
  IF i > Len(rs) THEN NoMatch(tool_name)
  ELSE IF matches_command(rs[i], cmd)
    THEN Matched(thresholds, rs[i], cmd, tool_name)
  ELSE EvaluateAnyType(rs, thresholds, i + 1, cmd, tool_name)

\* evaluate_command: the loop over self.rules, from rule i on
RECURSIVE EvaluateFrom(_, _, _, _, _)
EvaluateFrom(rs, thresholds, i, cmd, tool_name) ==
  IF i > Len(rs) THEN NoMatch(tool_name)
  ELSE IF rs[i].rule_type = "command" /\ matches_command(rs[i], cmd)
    THEN Matched(thresholds, rs[i], cmd, tool_name)
  ELSE EvaluateFrom(rs, thresholds, i + 1, cmd, tool_name)

evaluate_command_last(rs, thresholds, cmd, tool_name) ==
  EvaluateLast(rs, thresholds, 1, cmd, tool_name)

evaluate_command_any_type(rs, thresholds, cmd, tool_name) ==
  EvaluateAnyType(rs, thresholds, 1, cmd, tool_name)

\* EnhancedDecisionAPI.evaluate_command
evaluate_command(rs, thresholds, cmd, tool_name) ==
  EvaluateFrom(rs, thresholds, 1, cmd, tool_name)

(***************************************************************************)
(* Inputs: rule items, policies, commands.                                 *)
(***************************************************************************)
Dict(d) == [json |-> "dict", d |-> d]

\* The four rules of demo()'s policy.
DemoDangerous ==
  Dict([tags |-> <<"system:dangerous">>, action |-> "deny", severity |-> "critical",
        reason |-> "block destructive system commands"])
DemoInstall ==
  Dict([tags |-> <<"package:install">>, action |-> "ask", severity |-> "medium",
        reason |-> "package installation needs confirmation"])
DemoGit ==
  Dict([tags |-> <<"git:destructive">>, action |-> "ask", severity |-> "high",
        reason |-> "destructive git operation needs confirmation"])
DemoCurl ==
  Dict([pattern |-> CurlPipeSh, action |-> "deny", severity |-> "high",
        reason |-> "piping a remote script into a shell is forbidden"])

\* Further rule items.
PathRule ==        \* not a command rule; its pattern and its tag match commands
  Dict([type |-> "path", pattern |-> RmRf, tags |-> <<"package:install">>,
        action |-> "allow", severity |-> "low", reason |-> "path rule"])
BadRegexRule ==
  Dict([pattern |-> Unbalanced, action |-> "deny", reason |-> "never compiled"])
NotADict == [json |-> "str", s |-> "deny everything"]
BareRule ==        \* neither pattern nor tags
  Dict([action |-> "deny", severity |-> "critical", reason |-> "bare rule"])
UnknownTagRule ==  \* a tag that is not in the table, then one that is
  Dict([tags |-> <<"net:download", "system:admin">>, action |-> "ask",
        severity |-> "low", reason |-> "administrative command"])
AllowEcho ==       \* action and nothing else: severity and reason take the defaults
  Dict([pattern |-> EchoPattern, action |-> "allow"])
AllowInstall ==
  Dict([pattern |-> InstallPattern, action |-> "allow", severity |-> "low",
        reason |-> "installs are fine"])

RulePool ==
  {DemoDangerous, DemoInstall, DemoGit, DemoCurl, PathRule, BadRegexRule, NotADict,
   BareRule, UnknownTagRule, AllowEcho, AllowInstall}

RuleLists(longest) == UNION {[1..n -> RulePool] : n \in 0..longest}

StrictThresholds == ("medium" :> "deny") @@ ("low" :> "ask")
NoThresholds == [s \in {} |-> "allow"]

DemoPolicy ==
  [pre_tool_use |->
     [rules |-> <<DemoDangerous, DemoInstall, DemoGit, DemoCurl>>,
      severity_thresholds |-> DefaultThresholds]]

Policies(longest) ==
  {EmptyDict, DemoPolicy}
    \cup {[pre_tool_use |-> [rules |-> rs]] : rs \in RuleLists(longest)}
    \cup {[pre_tool_use |-> [rules |-> rs, severity_thresholds |-> th]] :
            rs \in RuleLists(longest), th \in {StrictThresholds, NoThresholds}}


ToolNames == {"unknown", "Bash"}

NoResult == [none |-> TRUE]

(***************************************************************************)
(* Spec: EnhancedDecisionAPI(policy), then calls of evaluate_command.      *)
(***************************************************************************)
HeraldIdle ==
  /\ files = EmptyDict
  /\ argv = <<>>
  /\ pc = "idle"
  /\ results = EmptyDict
  /\ stdout = <<>>
  /\ stderr = <<>>
  /\ exit_status = -1

ApiInit(ps) ==
  /\ policy \in ps
  /\ rules = <<>>
  /\ severity_thresholds = NoThresholds
  /\ warnings = <<>>
  /\ api_pc = "new"
  /\ command = <<>>
  /\ result = NoResult
  /\ resolved = NoResult
  /\ HeraldIdle

Init == ApiInit(Policies(MaxRules))

\* EnhancedDecisionAPI.__init__
Construct ==
  /\ api_pc = "new"
  /\ LET c == _compile_rules(policy)
     IN  /\ rules' = c.compiled
         /\ warnings' = c.warnings
  /\ severity_thresholds' =
       DictGet(DictGet(policy, "pre_tool_use", EmptyDict), "severity_thresholds",
               DefaultThresholds)
  /\ api_pc' = "ready"
  /\ UNCHANGED <<policy, command, result, resolved>>
  /\ UNCHANGED herald_vars

\* api.evaluate_command(cmd, tool_name)
Evaluate(cmd, tool_name) ==
  /\ api_pc = "ready"
  /\ command' = cmd
  /\ result' = evaluate_command(rules, severity_thresholds, cmd, tool_name)
  /\ UNCHANGED <<policy, rules, severity_thresholds, warnings, api_pc, resolved>>
  /\ UNCHANGED herald_vars

Next ==
  \/ Construct
  \/ \E cmd \in Commands, tool_name \in ToolNames : Evaluate(cmd, tool_name)

Spec == Init /\ [][Next]_vars

(***************************************************************************)
(* SpecCompile: construction alone, over longer rule lists.                *)
(***************************************************************************)
InitCompile == ApiInit(Policies(MaxCompiled))

NextCompile == Construct

SpecCompile == InitCompile /\ [][NextCompile]_vars

(***************************************************************************)
(* SpecResolve: _resolve_action for every mapping of the severity levels   *)
(* to actions, every rule action and every severity.                       *)
(***************************************************************************)
Severities == Range(SEVERITY_LEVELS) \cup {"info"}

ThresholdMappings ==
  UNION {[levels -> Actions] : levels \in SUBSET Range(SEVERITY_LEVELS)}

InitResolve ==
  /\ policy = EmptyDict
  /\ rules = <<>>
  /\ severity_thresholds \in ThresholdMappings
  /\ warnings = <<>>
  /\ api_pc = "resolve"
  /\ command = <<>>
  /\ result = NoResult
  /\ resolved = NoResult
  /\ HeraldIdle

Resolve(rule_action, severity) ==
  /\ api_pc = "resolve"
  /\ resolved' = [rule_action |-> rule_action, severity |-> severity,
                  final_action |-> _resolve_action(severity_thresholds, rule_action, severity)]
  /\ UNCHANGED <<policy, rules, severity_thresholds, warnings, api_pc, command, result>>
  /\ UNCHANGED herald_vars

NextResolve == \E rule_action \in Actions, severity \in Severities : Resolve(rule_action, severity)

SpecResolve == InitResolve /\ [][NextResolve]_vars

(***************************************************************************)
(* Properties of EnhancedDecisionAPI.                                      *)
(***************************************************************************)
Evaluated == api_pc = "ready" /\ result # NoResult

Min(S) == CHOOSE x \in S : \A y \in S : x <= y

\* allow < ask < deny
Rank(action) == CASE action = "allow" -> 0 [] action = "ask" -> 1 [] action = "deny" -> 2

MoreRestrictive(a, b) == IF Rank(a) >= Rank(b) THEN a ELSE b

\* The rules that match the last command, of any type and of type "command".
MatchingRules == {i \in DOMAIN rules : matches_command(rules[i], command)}
MatchingCommandRules == {i \in MatchingRules : rules[i].rule_type = "command"}

\* The items of the policy's rule list that compile: dicts whose pattern, if
\* they have one, is a valid regular expression.
Compilable(item) ==
  /\ item.json = "dict"
  /\ "pattern" \in DOMAIN item.d => item.d["pattern"].valid

PolicyRules == DictGet(DictGet(policy, "pre_tool_use", EmptyDict), "rules", <<>>)

\* C1 as stated: the permissionDecision of evaluate_command is the action of
\* the first rule, in declaration order, that matches the command.
C1_FirstMatchAction ==
  (Evaluated /\ MatchingRules # {})
    => result.permissionDecision = rules[Min(MatchingRules)].action

C1_FirstMatchState ==
  (Evaluated /\ MatchingCommandRules # {}) =>
    LET r == rules[Min(MatchingCommandRules)]
    IN  /\ result.permissionDecision =
             (IF r.severity \in DOMAIN severity_thresholds
              THEN MoreRestrictive(r.action, severity_thresholds[r.severity])
              ELSE r.action)
        /\ result.reason = r.reason
        /\ result.matched_rule.action = r.action
        /\ result.matched_rule.severity = r.severity

\* C1 amended: evaluate_command returns the decision of the first rule of type
\* "command", in declaration order, that matches the command, whatever later
\* rules match: its permissionDecision is that rule's action raised to the
\* threshold action of the rule's severity when that one is more restrictive,
\* and reason and matched_rule are that rule's.  A repeated call with the same
\* command and tool name returns the same value.
C1_FirstCommandMatchResolved ==
  /\ []C1_FirstMatchState
  /\ [][(Evaluated /\ command' = command /\ result'.tool = result.tool)
          => result' = result]_vars

\* C1 witness: two command rules with different actions match the evaluated
\* command and the decision is the first one's.
C1_Witness ==
  /\ Evaluated
  /\ \E i, j \in MatchingCommandRules :
        /\ i < j
        /\ i = Min(MatchingCommandRules)
        /\ rules[i].action = "allow" /\ rules[j].action = "ask"
        /\ rules[i].severity = "low"
        /\ result.permissionDecision = "allow"

\* C3: the compiled rules are the rules of exactly the items that compile, in
\* the order of the policy's rule list; every other item is reported and
\* dropped; construction always completes.
C3_BadRuleSkipped ==
  /\ api_pc = "new" => ENABLED Construct
  /\ api_pc = "ready" =>
        LET good == SelectSeq(PolicyRules, Compilable)
            bad == SelectSeq(PolicyRules, LAMBDA item : ~Compilable(item))
        IN  /\ Len(rules) = Len(good)
            /\ \A i \in DOMAIN good : rules[i] = CompileItem(good[i]).value
            /\ warnings = bad

\* C3 witness: a list with a bad pattern between two rules that compile.
C3_Witness ==
  /\ api_pc = "ready"
  /\ PolicyRules = <<DemoInstall, BadRegexRule, DemoDangerous>>
  /\ Len(rules) = 2
  /\ rules[1].tags = <<"package:install">>
  /\ rules[2].tags = <<"system:dangerous">>

\* C4: when no compiled rule matches the command the decision is allow; the
\* demo policy allows "echo hello".
C4_DefaultAllow ==
  /\ (Evaluated /\ MatchingRules = {}) =>
        /\ result.permissionDecision = "allow"
        /\ "matched_rule" \notin DOMAIN result
  /\ (Evaluated /\ policy = DemoPolicy /\ command = CmdEcho) =>
        result.permissionDecision = "allow"

\* C4 witness: "echo hello" evaluated under the demo policy.
C4_Witness ==
  /\ Evaluated /\ policy = DemoPolicy /\ command = CmdEcho
  /\ Len(rules) = 4 /\ MatchingRules = {}
  /\ result.permissionDecision = "allow"

\* C5: under the demo policy "rm -rf /" is denied with a non-empty reason.
C5_DemoDeniesRmRf ==
  (Evaluated /\ policy = DemoPolicy /\ command = CmdRmRf) =>
    /\ result.permissionDecision = "deny"
    /\ result.reason # ""

\* C5 witness: "rm -rf /" evaluated under the demo policy.
C5_Witness ==
  /\ Evaluated /\ policy = DemoPolicy /\ command = CmdRmRf
  /\ severity_thresholds = DefaultThresholds
  /\ result.permissionDecision = "deny"

\* C6: a compiled rule without a pattern matches a command exactly when some
\* pattern of some of its tags that the tag table defines is found in the
\* command; tags outside the table add nothing, and a rule without tags and
\* without pattern matches no command.
C6_TagRuleMatch ==
  api_pc = "ready" =>
    \A i \in DOMAIN rules : \A cmd \in Commands :
      ~rules[i].pattern.some =>
        (matches_command(rules[i], cmd) <=>
           \E tag \in Range(rules[i].tags) \cap DOMAIN BUILT_IN_TAG_PATTERNS :
              \E prog \in Range(BUILT_IN_TAG_PATTERNS[tag]) : search(prog, cmd))

\* C6 witness: a rule whose first tag is not in the table and whose second tag
\* matches decided the evaluated command.
C6_Witness ==
  /\ Evaluated /\ command = CmdSudoRestart
  /\ MatchingCommandRules # {}
  /\ LET r == rules[Min(MatchingCommandRules)]
     IN  /\ ~r.pattern.some
         /\ r.tags = <<"net:download", "system:admin">>
         /\ result.reason = r.reason

\* C7: _resolve_action returns the more restrictive of the rule's action and
\* the threshold action of the rule's severity, the rule's action when the
\* mapping has no entry for the severity; never less than the rule's action.
C7_ResolveMostRestrictive ==
  resolved # NoResult =>
    /\ resolved.final_action =
         (IF resolved.severity \in DOMAIN severity_thresholds
          THEN MoreRestrictive(resolved.rule_action, severity_thresholds[resolved.severity])
          ELSE resolved.rule_action)
    /\ Rank(resolved.final_action) >= Rank(resolved.rule_action)

\* C7 witness: an allow rule raised to deny by the threshold of its severity.
C7_Witness ==
  /\ resolved # NoResult
  /\ resolved.rule_action = "allow"
  /\ resolved.severity \in DOMAIN severity_thresholds
  /\ severity_thresholds[resolved.severity] = "deny"
  /\ resolved.final_action = "deny"

\* C8: the value evaluate_command returns is the one it returns with every
\* rule of a type other than "command" removed from the compiled rules.
C8_OnlyCommandRules ==
  Evaluated =>
    result = evaluate_command(SelectSeq(rules, LAMBDA r : r.rule_type = "command"),
                              severity_thresholds, command, result.tool)

\* C8 witness: a path rule that matches the command is declared first and the
\* decision is that of the command rule after it.
C8_Witness ==
  /\ Evaluated
  /\ Len(rules) = 2
  /\ rules[1].rule_type = "path" /\ matches_command(rules[1], command)
  /\ rules[2].rule_type = "command" /\ matches_command(rules[2], command)
  /\ rules[1].action # rules[2].action
  /\ result.reason = rules[2].reason

(***************************************************************************)
(* check_herald_integration.py                                             *)
(***************************************************************************)
\* JSON values as json.loads returns them.
Str(x) == [json |-> "str", s |-> x]
Num(x) == [json |-> "num", n |-> x]
List(items) == [json |-> "list", items |-> items]

IsDict(v) == v.json = "dict"
IsList(v) == v.json = "list"
IsStr(v) == v.json = "str"

\* bool(v)
Truthy(v) ==
  CASE v.json = "null" -> FALSE
    [] v.json = "num" -> v.n # 0
    [] v.json = "str" -> v.s # ""
    [] v.json = "list" -> Len(v.items) > 0
    [] v.json = "dict" -> DOMAIN v.d # {}

Return(v) == [raised |-> FALSE, value |-> v]
Raise(exc) == [raised |-> TRUE, exc |-> exc]

EXPECTED_IMPORTS ==
  {"from notification import NotificationHook",
   "from stop import StopHook",
   "from subagent_stop import SubagentStopHook",
   "from pre_tool_use import PreToolUseHook",
   "from post_tool_use import PostToolUseHook",
   "from user_prompt_submit import UserPromptSubmitHook",
   "from session_start import SessionStartHook",
   "from session_end import SessionEndHook"}

EXPECTED_EVENTS ==
  <<"Notification", "Stop", "SubagentStop", "PreToolUse", "PostToolUse",
    "UserPromptSubmit", "SessionStart", "SessionEnd">>

AUDIO_MAPPING_KEYS ==
  ("pre_tool_use" :> "security_check.wav")
    @@ ("post_tool_use" :> "task_complete.wav")
    @@ ("user_prompt_submit" :> "user_prompt.wav")
    @@ ("session_start" :> "session_start.wav")
    @@ ("session_end" :> "session_complete.wav")

\* list(AUDIO_MAPPING_KEYS.keys()): the keys in the order of the dict
AudioKeyOrder ==
  <<"pre_tool_use", "post_tool_use", "user_prompt_submit", "session_start", "session_end">>

\* sorted(EXPECTED_IMPORTS)
SortedImports ==
  <<"from notification import NotificationHook",
    "from post_tool_use import PostToolUseHook",
    "from pre_tool_use import PreToolUseHook",
    "from session_end import SessionEndHook",
    "from session_start import SessionStartHook",
    "from stop import StopHook",
    "from subagent_stop import SubagentStopHook",
    "from user_prompt_submit import UserPromptSubmitHook">>

\* sorted(EXPECTED_EVENTS)
SortedEvents ==
  <<"Notification", "PostToolUse", "PreToolUse", "SessionEnd", "SessionStart",
    "Stop", "SubagentStop", "UserPromptSubmit">>

CheckResult(passed, missing, detail) ==
  [passed |-> passed, missing |-> missing, detail |-> detail]

ErrorDetail(text) == ("error" :> text)

\* The outcome of exists() and read_text(encoding="utf-8") that every check
\* starts with: the error result, the exception that escapes, or the text.
\*   missing      exists() is false
\*   unreadable   read_text raises an OSError (f.exc names its class)
\*   undecodable  the bytes are not UTF-8: read_text raises UnicodeDecodeError
ReadOutcome(f, complete, missing_error) ==
  IF f.st = "missing"
    THEN Return(CheckResult(FALSE, complete, ErrorDetail(missing_error)))
  ELSE IF f.st = "unreadable"
    THEN Return(CheckResult(FALSE, complete, ErrorDetail("read_error:" \o f.exc)))
  ELSE IF f.st = "undecodable" THEN Raise("UnicodeDecodeError")
  ELSE [raised |-> FALSE, text |-> TRUE]

\* _check_herald_imports; iteration is the order in which the for loop visits
\* the set EXPECTED_IMPORTS
_check_herald_imports(herald, iteration) ==
  LET r == ReadOutcome(herald, SortedImports, "herald.py_missing")
  IN  IF "text" \notin DOMAIN r THEN r
      ELSE
        LET missing == SelectSeq(iteration, LAMBDA item : item \notin herald.imports)
            present == SelectSeq(SortedImports, LAMBDA item : item \notin Range(missing))
        IN  Return(CheckResult(Len(missing) = 0, missing, ("present" :> present)))

\* _check_handler_registration
_check_handler_registration(herald) ==
  LET r == ReadOutcome(herald, EXPECTED_EVENTS, "herald.py_missing")
  IN  IF "text" \notin DOMAIN r THEN r
      ELSE
        LET missing == SelectSeq(EXPECTED_EVENTS, LAMBDA event : event \notin herald.handlers)
            registered == SelectSeq(SortedEvents, LAMBDA event : event \notin Range(missing))
        IN  Return(CheckResult(Len(missing) = 0, missing, ("registered" :> registered)))

\* json.loads(read_text()) as _check_audio_config and _check_settings call it
LoadOutcome(f, complete, missing_error) ==
  LET r == ReadOutcome(f, complete, missing_error)
  IN  IF "text" \notin DOMAIN r THEN r
      ELSE IF f.st = "badjson"
        THEN Return(CheckResult(FALSE, complete, ErrorDetail("parse_error:JSONDecodeError")))
      ELSE r

\* x or {}
OrEmptyDict(v) == IF Truthy(v) THEN v ELSE Dict(EmptyDict)

\* _check_audio_config
_check_audio_config(audio) ==
  LET r == LoadOutcome(audio, AudioKeyOrder, "audio_config_missing")
  IN  IF "text" \notin DOMAIN r THEN r
      ELSE IF ~IsDict(audio.value) THEN Raise("AttributeError")
      ELSE
        LET sound_files == OrEmptyDict(DictGet(audio.value.d, "sound_files", None))
        IN  IF ~IsDict(sound_files) THEN Raise("AttributeError")
            ELSE
              LET mappings == OrEmptyDict(DictGet(sound_files.d, "mappings", None))
              IN  IF ~IsDict(mappings) THEN Raise("AttributeError")
                  ELSE
                    LET wrong == SelectSeq(AudioKeyOrder,
                                   LAMBDA key : DictGet(mappings.d, key, None)
                                                  # Str(AUDIO_MAPPING_KEYS[key]))
                        missing == [i \in 1..Len(wrong) |->
                                      wrong[i] \o ":" \o AUDIO_MAPPING_KEYS[wrong[i]]]
                        configured == [key \in DOMAIN AUDIO_MAPPING_KEYS |->
                                         DictGet(mappings.d, key, None)]
                    IN  Return(CheckResult(Len(missing) = 0, missing,
                                           ("configured" :> configured)))

\* _extract_commands: the commands of one entry's "hooks" list
HookCommands(hooks) ==
  LET sel == SelectSeq(hooks,
               LAMBDA hook : /\ IsDict(hook)
                             /\ DictGet(hook.d, "type", None) = Str("command")
                             /\ IsStr(DictGet(hook.d, "command", None)))
  IN  [i \in 1..Len(sel) |-> sel[i].d["command"].s]

RECURSIVE ExtractLoop(_, _, _)
ExtractLoop(entries, i, commands) ==
  IF i > Len(entries) THEN Return(commands)
  ELSE IF ~IsDict(entries[i]) THEN ExtractLoop(entries, i + 1, commands)
  ELSE
    LET hooks == DictGet(entries[i].d, "hooks", List(<<>>))
    IN  IF hooks.json \in {"null", "num"}
          THEN Raise("TypeError")       \* for hook in <not iterable>
        ELSE IF IsList(hooks)
          THEN ExtractLoop(entries, i + 1, commands \o HookCommands(hooks.items))
        \* a str yields its characters, a dict its keys: none is a dict
        ELSE ExtractLoop(entries, i + 1, commands)

\* _extract_commands
_extract_commands(entries) ==
  IF ~IsList(entries) THEN Return(<<>>)
  ELSE ExtractLoop(entries.items, 1, <<>>)

ExpectedCommand(event) == "$CLAUDE_PROJECT_DIR/.claude/hooks/herald.py --hook " \o event

\* _check_settings: the loop over EXPECTED_EVENTS, from event i on
RECURSIVE SettingsLoop(_, _, _, _)
SettingsLoop(hooks, i, missing, detail) ==
  IF i > Len(EXPECTED_EVENTS) THEN Return(CheckResult(Len(missing) = 0, missing, detail))
  ELSE
    LET event == EXPECTED_EVENTS[i]
        entries == DictGet(hooks, event, None)
    IN  IF ~Truthy(entries)
          THEN SettingsLoop(hooks, i + 1, Append(missing, event), detail)
        ELSE
          LET c == _extract_commands(entries)
          IN  IF c.raised THEN c
              ELSE SettingsLoop(hooks, i + 1,
                                IF ExpectedCommand(event) \notin Range(c.value)
                                  THEN Append(missing, event) ELSE missing,
                                (event :> c.value) @@ detail)

\* _check_settings
_check_settings(settings) ==
  LET r == LoadOutcome(settings, EXPECTED_EVENTS, "settings.json_missing")
  IN  IF "text" \notin DOMAIN r THEN r
      ELSE
        LET hooks == IF IsDict(settings.value)
                       THEN DictGet(settings.value.d, "hooks", None) ELSE None
        IN  IF ~IsDict(hooks)
              THEN Return(CheckResult(FALSE, EXPECTED_EVENTS, ErrorDetail("hooks_missing")))
            ELSE SettingsLoop(hooks.d, 1, <<>>, EmptyDict)

\* json.dumps(obj): the JSON text of obj.  The report holds only str, bool,
\* list, dict and values that json.loads returned, so it does not raise.
json_dumps(obj) == Return([kind |-> "json", value |-> obj])

CheckNames == <<"imports", "handlers", "audio", "settings">>

\* main: the report built from the results dict
Report(res) ==
  [continue |-> TRUE,
   checks |-> [name \in DOMAIN res |->
                 [passed |-> res[name].passed, missing |-> res[name].missing,
                  detail |-> res[name].detail]]]

MinimalReport == [continue |-> TRUE]

\* _emit_summary: the line written to stderr
Summary(res) ==
  [kind |-> "summary",
   items |-> [i \in DOMAIN CheckNames |->
                [name |-> CheckNames[i],
                 status |-> IF res[CheckNames[i]].passed THEN "ok" ELSE "missing",
                 missing |-> res[CheckNames[i]].missing]]]

\* _print_guidance: the six tips, one line each
GuideTips ==
  <<"[Guide] import every new hook class in herald.py",
    "[Guide] register the 8/8 events in build_default_dispatcher",
    "[Guide] update sound_files.mappings of audio_config.json for every event",
    "[Guide] route the commands in the hooks block of settings.json",
    "[Guide] provide the .wav files",
    "[Guide] extend the tests and verification scripts">>

KnownFlags == {"--json-only", "--guide"}
HelpFlags == {"-h", "--help"}

(***************************************************************************)
(* Inputs of a run: the arguments and what the three files hold when the   *)
(* run inspects them.                                                      *)
(***************************************************************************)
ArgvChoices == {<<>>, <<"--json-only", "--guide">>, <<"--bogus">>, <<"--help">>}

Unseen == [st |-> "unseen"]
Missing == [st |-> "missing"]
Unreadable == [st |-> "unreadable", exc |-> "PermissionError"]
Undecodable == [st |-> "undecodable"]
BadJson == [st |-> "badjson"]
Json(v) == [st |-> "json", value |-> v]

FewOf(S) == {A \in SUBSET S : Cardinality(A) <= MaxAbsent}

HeraldStates ==
  {Missing, Unreadable, Undecodable}
    \cup {[st |-> "text", imports |-> EXPECTED_IMPORTS \ A,
           handlers |-> Range(EXPECTED_EVENTS) \ B] :
            <<A, B>> \in {p \in FewOf(EXPECTED_IMPORTS) \X FewOf(Range(EXPECTED_EVENTS)) :
                            Cardinality(p[1]) + Cardinality(p[2]) <= MaxAbsent}}

\* Orders in which the for loop may visit the set EXPECTED_IMPORTS.
IterationOrders ==
  {SortedImports,
   [i \in DOMAIN SortedImports |-> SortedImports[Len(SortedImports) + 1 - i]]}

\* sound_files.mappings with the keys of absent left out and those of wrong
\* mapped to another file.
Mappings(absent, wrong) ==
  [key \in DOMAIN AUDIO_MAPPING_KEYS \ absent |->
     IF key \in wrong THEN Str("beep.wav") ELSE Str(AUDIO_MAPPING_KEYS[key])]

AudioConfigs ==
  {List(<<>>),
   Dict(EmptyDict),
   Dict([sound_files |-> None]),
   Dict([sound_files |-> List(<<Num(1)>>)]),
   Dict([sound_files |-> Dict(EmptyDict)]),
   Dict([sound_files |-> Dict([mappings |-> None])]),
   Dict([sound_files |-> Dict([mappings |-> List(<<Num(1)>>)])])}
    \cup {Dict([sound_files |-> Dict([mappings |-> Dict(Mappings(p[1], p[2]))])]) :
            p \in {q \in FewOf(DOMAIN AUDIO_MAPPING_KEYS) \X FewOf(DOMAIN AUDIO_MAPPING_KEYS) :
                     /\ q[1] \cap q[2] = {}
                     /\ Cardinality(q[1]) + Cardinality(q[2]) <= MaxAbsent}}

AudioStates == {Missing, Unreadable, Undecodable, BadJson} \cup {Json(v) : v \in AudioConfigs}

\* The entries settings.json is expected to hold for an event.
GoodEntries(event) ==
  List(<<Dict([hooks |-> List(<<Dict([type |-> Str("command"),
                                      command |-> Str(ExpectedCommand(event))])>>)])>>)

AbsentKey == [json |-> "absent"]

OddEntries ==
  {AbsentKey,
   List(<<>>),
   Num(7),
   List(<<Str("x")>>),
   List(<<Dict([hooks |-> None])>>),
   List(<<Dict([hooks |-> Str("abc")])>>),
   List(<<Dict([hooks |-> List(<<Dict([type |-> Str("command"),
                                       command |-> Str("other.py")])>>)])>>)}

\* The hooks dict in which the events of odd have the entries odd gives them.
HooksWith(odd) ==
  [event \in Range(EXPECTED_EVENTS) \ {e \in DOMAIN odd : odd[e] = AbsentKey} |->
     IF event \in DOMAIN odd THEN odd[event] ELSE GoodEntries(event)]

SettingsValues ==
  {List(<<>>), Dict(EmptyDict), Dict([hooks |-> List(<<>>)])}
    \cup {Dict([hooks |-> Dict(HooksWith(odd))]) :
            odd \in UNION {[K -> OddEntries] : K \in FewOf(Range(EXPECTED_EVENTS))}}

SettingsStates ==
  {Missing, Unreadable, Undecodable, BadJson} \cup {Json(v) : v \in SettingsValues}

(***************************************************************************)
(* SpecHerald: one run of main().                                          *)
(***************************************************************************)
ApiIdle ==
  /\ policy = EmptyDict
  /\ rules = <<>>
  /\ severity_thresholds = NoThresholds
  /\ warnings = <<>>
  /\ api_pc = "idle"
  /\ command = <<>>
  /\ result = NoResult
  /\ resolved = NoResult

InitHerald ==
  /\ ApiIdle
  /\ files = [herald |-> Unseen, audio |-> Unseen, settings |-> Unseen]
  /\ argv \in ArgvChoices
  /\ pc = "start"
  /\ results = EmptyDict
  /\ stdout = <<>>
  /\ stderr = <<>>
  /\ exit_status = -1

\* parser.parse_args(): -h prints the help to stdout and exits with status 0,
\* an unrecognized argument prints the usage to stderr and exits with status 2.
ParseArgs ==
  /\ pc = "start"
  /\ IF Range(argv) \cap HelpFlags # {}
       THEN /\ stdout' = Append(stdout, [kind |-> "text", text |-> "usage and options"])
            /\ stderr' = stderr
            /\ exit_status' = 0
            /\ pc' = "exited"
     ELSE IF ~(Range(argv) \subseteq KnownFlags)
       THEN /\ stderr' = Append(stderr, [kind |-> "usage", text |-> "unrecognized arguments"])
            /\ stdout' = stdout
            /\ exit_status' = 2
            /\ pc' = "exited"
     ELSE /\ pc' = "imports"
          /\ UNCHANGED <<stdout, stderr, exit_status>>
  /\ UNCHANGED <<files, argv, results>>
  /\ UNCHANGED api_vars

\* One entry of the results dict: the check's value is stored, or its
\* exception leaves main() and ends the process with a traceback.
RunCheck(name, r, next) ==
  IF r.raised
    THEN /\ stderr' = Append(stderr, [kind |-> "traceback", exc |-> r.exc, check |-> name])
         /\ exit_status' = 1
         /\ pc' = "crashed"
         /\ UNCHANGED results
    ELSE /\ results' = (name :> r.value) @@ results
         /\ pc' = next
         /\ UNCHANGED <<stderr, exit_status>>

CheckImports ==
  /\ pc = "imports"
  /\ \E herald \in HeraldStates, iteration \in IterationOrders :
       /\ files' = [files EXCEPT !.herald = herald]
       /\ RunCheck("imports", _check_herald_imports(herald, iteration), "handlers")
  /\ UNCHANGED <<argv, stdout>>
  /\ UNCHANGED api_vars

CheckHandlers ==
  /\ pc = "handlers"
  /\ RunCheck("handlers", _check_handler_registration(files.herald), "audio")
  /\ UNCHANGED <<files, argv, stdout>>
  /\ UNCHANGED api_vars

CheckAudio ==
  /\ pc = "audio"
  /\ \E audio \in AudioStates :
       /\ files' = [files EXCEPT !.audio = audio]
       /\ RunCheck("audio", _check_audio_config(audio), "settings")
  /\ UNCHANGED <<argv, stdout>>
  /\ UNCHANGED api_vars

CheckSettings ==
  /\ pc = "settings"
  /\ \E settings \in SettingsStates :
       /\ files' = [files EXCEPT !.settings = settings]
       /\ RunCheck("settings", _check_settings(settings), "summary")
  /\ UNCHANGED <<argv, stdout>>
  /\ UNCHANGED api_vars

\* _emit_summary(results)
EmitSummary ==
  /\ pc = "summary"
  /\ stderr' = Append(stderr, Summary(results))
  /\ pc' = IF "--guide" \in Range(argv) THEN "guidance" ELSE "report"
  /\ UNCHANGED <<files, argv, results, stdout, exit_status>>
  /\ UNCHANGED api_vars

\* _print_guidance()
PrintGuidance ==
  /\ pc = "guidance"
  /\ stderr' = stderr \o [i \in DOMAIN GuideTips |-> [kind |-> "guide", text |-> GuideTips[i]]]
  /\ pc' = "report"
  /\ UNCHANGED <<files, argv, results, stdout, exit_status>>
  /\ UNCHANGED api_vars

\* print(json.dumps(report)), the minimal object if that raises; return 0
PrintReport ==
  /\ pc = "report"
  /\ LET d == json_dumps(Report(results))
     IN  stdout' = Append(stdout, IF d.raised THEN json_dumps(MinimalReport).value
                                  ELSE d.value)
  /\ exit_status' = 0
  /\ pc' = "done"
  /\ UNCHANGED <<files, argv, results, stderr>>
  /\ UNCHANGED api_vars

NextHerald ==
  \/ ParseArgs
  \/ CheckImports
  \/ CheckHandlers
  \/ CheckAudio
  \/ CheckSettings
  \/ EmitSummary
  \/ PrintGuidance
  \/ PrintReport

SpecHerald == InitHerald /\ [][NextHerald]_vars

(***************************************************************************)
(* Properties of check_herald_integration.py.                              *)
(***************************************************************************)
Ended == pc \in {"done", "crashed", "exited"}

\* The file each check inspects and the complete list of what it expects.
FileOf ==
  [imports |-> "herald", handlers |-> "herald", audio |-> "audio", settings |-> "settings"]

Complete ==
  [imports |-> SortedImports, handlers |-> EXPECTED_EVENTS,
   audio |-> AudioKeyOrder, settings |-> EXPECTED_EVENTS]

\* The check was called: it returned, or its exception ended the run.
Ran(name) ==
  \/ name \in DOMAIN results
  \/ pc = "crashed" /\ stderr[Len(stderr)].check = name

\* The check's file is missing, cannot be read or (audio, settings) is not JSON.
InError(name) ==
  \/ files[FileOf[name]].st \in {"missing", "unreadable", "undecodable"}
  \/ name \in {"audio", "settings"} /\ files[FileOf[name]].st = "badjson"

\* C2 as stated: every run ends with status 0 and with exactly one JSON object
\* on stdout, the full report or the minimal one, that holds continue = true.
C2_AlwaysOneJsonObject ==
  Ended =>
    /\ exit_status = 0
    /\ Len(stdout) = 1
    /\ stdout[1].kind = "json"
    /\ stdout[1].value \in {Report(results), MinimalReport}
    /\ stdout[1].value.continue = TRUE

\* C9 as stated: a check whose file is missing, unreadable or not valid JSON
\* returns passed = false, the complete list as missing and detail.error
\* instead of raising; the run then still makes all four checks and reports
\* the four entries.
C9_ErrorResultNotRaise ==
  \A name \in Range(CheckNames) :
    (Ran(name) /\ InError(name)) =>
      /\ name \in DOMAIN results
      /\ ~results[name].passed
      /\ results[name].missing = Complete[name]
      /\ "error" \in DOMAIN results[name].detail
      /\ Ended =>
           /\ pc = "done"
           /\ DOMAIN stdout[1].value.checks = Range(CheckNames)

\* C10 as stated: every CheckResult has passed = true exactly when missing is
\* empty, and missing lists items of the check's expected set, each at most once.
C10_ResultInvariant ==
  \A name \in DOMAIN results :
    LET r == results[name]
    IN  /\ r.passed <=> Len(r.missing) = 0
        /\ Range(r.missing) \subseteq Range(Complete[name])
        /\ \A i, j \in DOMAIN r.missing : r.missing[i] = r.missing[j] => i = j

====
